---- MODULE Spec2Model ----
(***************************************************************************)
(* Model of the UI component framework: the Repeater (list reconciler)     *)
(* and the base Component (text-binding registry and resolver).            *)
(*                                                                         *)
(* The Repeater part models the parent node's child list, the repeater's   *)
(* parallel lists itemNodes / itemNodeBindings, the observable arrays with *)
(* their event subscriptions, and the item data contexts.  Positions are   *)
(* 0-based as in the source; TLA+ sequences are 1-based, so position p is  *)
(* index p + 1.                                                            *)
(***************************************************************************)
EXTENDS Integers, Sequences, FiniteSets, TLC

\* ---------------------------------------------------------------- bounds
MaxSize == 3
MaxClones == 3
MaxBinds == 3
MaxTplNodes == 2

\* ------------------------------------------------------------- constants
Null == -1
RepeaterNode == 0
AnchorNode == 1
BeforeNode == 2
FirstItemNode == 3

Arrays == {"A", "B"}
\* The array elements.  The repeater never looks into an item, so the
\* arrays hold pairwise distinct items and an add takes the first name that
\* no array holds.
ItemNames == <<"x", "y", "z", "q", "r", "s", "t", "u", "v">>
Items == {ItemNames[i] : i \in 1..Len(ItemNames)}

VARIABLES
    phase,             \* "created" until attachedCallback has run, then "attached"
    template,          \* per top-level template node: number of bindings discovered in it
    dom,               \* childNodes of the repeater's parentNode (node ids, in order)
    itemNodes,         \* Repeater.itemNodes
    itemNodeBindings,  \* Repeater.itemNodeBindings
    arr,               \* contents of every ObservableArray
    dataContext,       \* dataContext.value: the array the repeater is bound to
    addSubs,           \* per array: closures of this repeater subscribed to itemAdded
    remSubs,           \* per array: closures of this repeater subscribed to itemRemoved
    pending,           \* handler calls of the event being dispatched, not yet run
    ctxItem,           \* the array element every item data context was created for
    ctxValue,          \* current value of every item data context (Observable)
    nodeCtx,           \* data context applied to every cloned node
    nodeText,          \* rendered text of every cloned node
    subscribed,        \* the binding records currently subscribed
    nextBinding,       \* next fresh binding id
    lastError          \* "none", or the error the last operation raised

VARIABLES
    cphase,            \* "template" before the constructor has run, then "constructed"; "hung" when a call never returns
    tpl,               \* the top-level nodes of the parsed template document
    rootHtmlElement,   \* the component's root element with everything below it
    textBindings,      \* Component.textBindings: per path, the TextBindingInfo records
    pathValue,         \* this[path].value: the value of the component's Observable of every path
    bindingIdCounter,  \* Component.bindingIdCounter
    cstatus,           \* "ok", or "TypeError" when the last operation threw
    lastPath           \* the path whose Observable was set last

VARIABLES
    attributes,        \* template.attributes: the attributes of the template script element
    parentComponent,   \* Component.parentComponent: Null when the component has no parent
    parentValue,       \* parentComponent[path].value of every path
    parentSubs,        \* per path: the updateCallbacks subscribed to parentComponent[path].onValueChanged
    propertyBindings,  \* Component.propertyBindings: the keys that hold an array, and the arrays
    subscribers,       \* per path: the updateCallbacks subscribed to this[path].onValueChanged
    isShowing,         \* Component._isShowing
    body,              \* document.body.childNodes (node ids, in order)
    parentRoot,        \* parentComponent.rootHtmlElement.childNodes (node ids, in order)
    lastCall           \* the last call of show or hide, with its argument

lvars == <<attributes, parentComponent, parentValue, parentSubs, propertyBindings,
           subscribers, isShowing, body, parentRoot, lastCall>>

cvars == <<cphase, tpl, rootHtmlElement, textBindings, pathValue, bindingIdCounter,
           cstatus, lastPath, lvars>>

VARIABLES
    templateChild,      \* whether the repeater element has a <template> child
    hostAttributes,     \* this.attributes: the attributes of the repeater element
    outerComponent,     \* Repeater.parentComponent: whether it is set, and its methods
    itemEventCallbacks, \* Repeater.itemEventCallbacks: the keys in insertion order, with their callbacks
    listeners,          \* the event listeners applyRepeaterEvents added to every cloned node
    lastFired,          \* the DOM event fired last: the node and the event
    invoked,            \* the callbacks the event fired last has invoked, with their arguments
    bindError,          \* "none", or the error the last bind (attachment or dataContext change) raised
    pc                  \* "idle", or the line at which the running handler has called out

hvars == <<templateChild, hostAttributes, outerComponent>>

evars == <<hvars, itemEventCallbacks, listeners, lastFired, invoked, bindError, pc>>

rvars == <<phase, template, dom, itemNodes, itemNodeBindings, arr, dataContext,
           addSubs, remSubs, pending, ctxItem, ctxValue, nodeCtx, nodeText,
           subscribed, nextBinding, lastError, evars>>

vars == <<rvars, cvars>>

\* ------------------------------------------------------------ DOM helpers
RECURSIVE Flatten(_)
Flatten(groups) ==
    IF groups = <<>> THEN <<>> ELSE Head(groups) \o Flatten(Tail(groups))

IndexOf(seq, n) ==
    IF \E i \in 1..Len(seq) : seq[i] = n
    THEN CHOOSE i \in 1..Len(seq) : seq[i] = n
    ELSE 0

\* Node.nextSibling within the parent's child list
nextSibling(d, n) ==
    LET i == IndexOf(d, n)
    IN  IF i = 0 \/ i = Len(d) THEN Null ELSE d[i + 1]

\* parentNode.insertBefore(fragment, refNode): the fragment's children go,
\* in order, right before refNode; a null refNode appends.
insertBefore(d, nodes, refNode) ==
    IF refNode = Null
    THEN d \o nodes
    ELSE LET i == IndexOf(d, refNode)
         IN  SubSeq(d, 1, i - 1) \o nodes \o SubSeq(d, i, Len(d))

\* parentNode.removeChild for every node of a set
removeChildren(d, nodes) == SelectSeq(d, LAMBDA n : n \notin nodes)

\* Array.prototype.splice(position, 0, x): a position beyond the end appends
spliceIn(seq, position, x) ==
    LET p == IF position > Len(seq) THEN Len(seq) ELSE position
    IN  SubSeq(seq, 1, p) \o <<x>> \o SubSeq(seq, p + 1, Len(seq))

\* Array.prototype.splice(position, 1): a position beyond the end removes nothing
spliceOut(seq, position) ==
    IF position >= Len(seq)
    THEN seq
    ELSE SubSeq(seq, 1, position) \o SubSeq(seq, position + 2, Len(seq))

Range(seq) == {seq[i] : i \in 1..Len(seq)}

\* ------------------------------------------------------- cloning an item
TplSize == Len(template)
NodesCreated == DOMAIN nodeCtx
NextNode == FirstItemNode + Cardinality(NodesCreated)
NextCtx == Len(ctxValue) + 1
ClonesMade == Len(ctxValue)

\* document.importNode(template.content, true): fresh nodes, one per template node
CloneNodes(base) == [j \in 1..TplSize |-> base + j - 1]

\* dataBinder.processBindings over the clone's nodes: template node j yields
\* template[j] binding records, each subscribed to the item data context
RECURSIVE BindingsFrom(_, _, _, _)
BindingsFrom(j, cloneNodes, ctx, firstId) ==
    IF j > Len(cloneNodes) THEN <<>>
    ELSE [k \in 1..template[j] |->
             [bid |-> firstId + k - 1, node |-> cloneNodes[j], ctx |-> ctx]]
         \o BindingsFrom(j + 1, cloneNodes, ctx, firstId + template[j])

processBindings(cloneNodes, ctx, firstId) == BindingsFrom(1, cloneNodes, ctx, firstId)

\* dataBinder.resolveBindings(records): renders every bound node with the
\* current value of the record's data context
resolveBindings(text, records, values) ==
    [n \in DOMAIN text |->
        IF \E r \in records : r.node = n
        THEN values[(CHOOSE r \in records : r.node = n).ctx]
        ELSE text[n]]

\* dataBinder.releaseBindings(records): unsubscribes every record
releaseBindings(live, records) == live \ Range(records)

\* ------------------------------------------------------------------ Init
\* The template's top-level nodes: every one of them carries a binding,
\* or only the last one does, or none
TemplateShapes ==
    UNION {{[j \in 1..n |-> 1], [j \in 1..n |-> IF j = n THEN 1 ELSE 0], [j \in 1..n |-> 0]} :
              n \in 1..MaxTplNodes}

InitArrays ==
    {[A |-> a, B |-> <<"v">>] : a \in {<<>>, <<"x">>, <<"x", "y">>}}

\* a dataContext.value that is not an ObservableArray: a plain object
NotAnArray == "N"

\* the outer component: not set, or set with its methods
NoOuter == [present |-> FALSE, methods |-> {}]
Outer == [present |-> TRUE, methods |-> {"onClick", "onDblClick"}]

NoEvent == [node |-> Null, event |-> ""]

\* the Repeater specifications leave the Component part idle, and the other
\* way round
ComponentIdle ==
    /\ cphase = "idle"
    /\ tpl = <<>>
    /\ rootHtmlElement = <<>>
    /\ textBindings = <<>>
    /\ pathValue = <<>>
    /\ bindingIdCounter = 0
    /\ cstatus = "ok"
    /\ lastPath = ""
    /\ attributes = <<>>
    /\ parentComponent = Null
    /\ parentValue = <<>>
    /\ parentSubs = <<>>
    /\ propertyBindings = <<>>
    /\ subscribers = <<>>
    /\ isShowing = FALSE
    /\ body = <<>>
    /\ parentRoot = <<>>
    /\ lastCall = <<>>

\* the state createdCallback leaves (lines 32-37), for given templates,
\* parent child lists, arrays, dataContext values, attribute lists and
\* outer components
Created(templates, doms, arrays, values, hasTemplate, attributeLists, outers) ==
    /\ ComponentIdle
    /\ phase = "created"
    /\ template \in templates
    /\ dom \in doms
    /\ itemNodes = <<>>
    /\ itemNodeBindings = <<>>
    /\ arr \in arrays
    /\ dataContext \in values
    /\ addSubs = [a \in Arrays |-> 0]
    /\ remSubs = [a \in Arrays |-> 0]
    /\ pending = <<>>
    /\ ctxItem = <<>>
    /\ ctxValue = <<>>
    /\ nodeCtx = <<>>
    /\ nodeText = <<>>
    /\ subscribed = {}
    /\ nextBinding = 1
    /\ lastError = "none"
    /\ templateChild \in hasTemplate
    /\ hostAttributes \in attributeLists
    /\ outerComponent \in outers
    /\ itemEventCallbacks = <<>>
    /\ listeners = <<>>
    /\ lastFired = NoEvent
    /\ invoked = <<>>
    /\ bindError = "none"
    /\ pc = "idle"

\* a repeater with a template, an array as data context and no item events
Init ==
    Created(TemplateShapes, {<<RepeaterNode>>, <<BeforeNode, RepeaterNode, AnchorNode>>},
            InitArrays, {"A"}, {TRUE}, {<<>>}, {NoOuter})

\* --------------------------------------------------------------- helpers
BindingsPerClone == Len(processBindings(CloneNodes(0), 0, 0))

\* the i-th clone (i = 0, 1, ...) made by one operation that starts in the
\* current state
CloneOf(i) == CloneNodes(NextNode + i * TplSize)
CtxOf(i) == NextCtx + i
RecordsOf(i) == processBindings(CloneOf(i), CtxOf(i), nextBinding + i * BindingsPerClone)

\* applyMyDataContext on every node of n clones, as a function over the new nodes
NewNodeCtx(n) ==
    [m \in NextNode..(NextNode + n * TplSize - 1) |-> NextCtx + ((m - NextNode) \div TplSize)]

Extend(f, g) == [m \in (DOMAIN f) \cup (DOMAIN g) |-> IF m \in DOMAIN g THEN g[m] ELSE f[m]]

\* --------------------------------------------------- applyRepeaterEvents
\* lines 207-213: one listener per key of itemEventCallbacks.  The arrow
\* function reads the loop's var eventName when the event fires, and by then
\* the loop has left it at the last key; dataContext is the call's own.
applyRepeaterEvents(callbacks, ctx) ==
    [k \in 1..Len(callbacks) |->
        [event |-> callbacks[k].eventName,
         eventName |-> callbacks[Len(callbacks)].eventName,
         dataContext |-> ctx]]

\* applyRepeaterEvents on every node of n clones
NewListeners(n, callbacks) ==
    [m \in DOMAIN NewNodeCtx(n) |-> applyRepeaterEvents(callbacks, NewNodeCtx(n)[m])]

\* --------------------------------------------------- populateAllItems
\* Clones the template once per array element, in ascending index order;
\* every group goes right before the running reference node, which starts
\* as the repeater's next sibling and is re-read after each insertion.
\* a variant that keeps the first reference node instead of re-reading it
\* after the insertion (line 189 left out)
RECURSIVE populateDomStaleRef(_, _, _, _)
populateDomStaleRef(d, refNode, i, n) ==
    IF i >= n THEN d
    ELSE LET inserted == insertBefore(d, CloneOf(i), refNode)
         IN  populateDomStaleRef(inserted, CloneOf(i)[1], i + 1, n)

RECURSIVE populateDom(_, _, _, _)
populateDom(d, refNode, i, n) ==
    IF i >= n THEN d
    ELSE LET inserted == insertBefore(d, CloneOf(i), refNode)
         IN  populateDom(inserted, nextSibling(inserted, CloneOf(i)[TplSize]), i + 1, n)

populateAllItems(clearedDom, a, callbacks) ==
    LET array == arr[a]
        n == Len(array)
        allRecords == UNION {Range(RecordsOf(i)) : i \in 0..(n - 1)}
        values == ctxValue \o array
        texts == Extend(nodeText, [m \in DOMAIN NewNodeCtx(n) |-> ""])
    IN  /\ itemNodes' = [i \in 1..n |-> CloneOf(i - 1)]
        /\ dom' = populateDom(clearedDom, nextSibling(clearedDom, RepeaterNode), 0, n)
        /\ itemNodeBindings' = [i \in 1..n |-> RecordsOf(i - 1)]
        /\ ctxItem' = ctxItem \o array
        /\ ctxValue' = values
        /\ nodeCtx' = Extend(nodeCtx, NewNodeCtx(n))
        /\ listeners' = Extend(listeners, NewListeners(n, callbacks))
        /\ subscribed' = subscribed \cup allRecords
        /\ nextBinding' = nextBinding + n * BindingsPerClone
        \* dataBinder.resolveAllBindings()
        /\ nodeText' = resolveBindings(texts, subscribed \cup allRecords, values)

\* --------------------------------------------------- dataContextUpdated
\* a is dataContext.value at the time of the call.  The type of the value
\* is not looked at here: on a value that is not an ObservableArray the
\* rendered items are removed, populateAllItems finds size undefined and
\* clones nothing, and line 59 throws a TypeError on the missing itemAdded.
dataContextUpdated(a, callbacks) ==
    IF a \in Arrays
    THEN /\ populateAllItems(removeChildren(dom, Range(Flatten(itemNodes))), a, callbacks)
         /\ addSubs' = [addSubs EXCEPT ![a] = @ + 1]
         /\ remSubs' = [remSubs EXCEPT ![a] = @ + 1]
         /\ bindError' = "none"
    ELSE /\ dom' = removeChildren(dom, Range(Flatten(itemNodes)))
         /\ itemNodes' = <<>>
         /\ itemNodeBindings' = <<>>
         /\ nodeText' = resolveBindings(nodeText, subscribed, ctxValue)
         /\ bindError' = "TypeError"
         /\ UNCHANGED <<addSubs, remSubs, ctxItem, ctxValue, nodeCtx, listeners, subscribed,
                        nextBinding>>

\* ------------------------------------------------------ attachedCallback
\* lines 149-162: the loop over the host's attributes.  st carries
\* itemEventCallbacks and the status.  An unresolved callback goes to
\* console.error, whose message reads this.parentComponent.tagName.
setCallback(callbacks, eventName, callback) ==
    IF \E k \in 1..Len(callbacks) : callbacks[k].eventName = eventName
    THEN [k \in 1..Len(callbacks) |->
             IF callbacks[k].eventName = eventName
             THEN [eventName |-> eventName, callback |-> callback]
             ELSE callbacks[k]]
    ELSE Append(callbacks, [eventName |-> eventName, callback |-> callback])

RECURSIVE bindItemEvents(_, _)
bindItemEvents(st, i) ==
    IF i > Len(hostAttributes) THEN st
    ELSE LET attributeName == hostAttributes[i].name
             attributeValue == hostAttributes[i].value
         IN  IF attributeName[1] # "data-event-item-"
             THEN bindItemEvents(st, i + 1)
             ELSE LET eventName == attributeName[2]
                  IN  IF outerComponent.present /\ attributeValue \in outerComponent.methods
                      THEN bindItemEvents([st EXCEPT !.callbacks =
                                               setCallback(@, eventName, attributeValue)], i + 1)
                      ELSE IF outerComponent.present
                           THEN bindItemEvents(st, i + 1)
                           ELSE \* line 159 reads tagName of undefined
                                [st EXCEPT !.status = "TypeError"]

\* the bind has thrown: nothing but the error and the callbacks recorded so far
attachFailed(error, callbacks) ==
    /\ phase' = "failed"
    /\ bindError' = error
    /\ lastError' = error
    /\ itemEventCallbacks' = callbacks
    /\ UNCHANGED <<dom, itemNodes, itemNodeBindings, addSubs, remSubs, ctxItem, ctxValue,
                   nodeCtx, nodeText, subscribed, nextBinding, listeners>>

attachedCallback ==
    /\ phase = "created"
    /\ dataContext \in Arrays => ClonesMade + Len(arr[dataContext]) <= MaxClones
    /\ IF ~templateChild
       THEN attachFailed("Error", itemEventCallbacks)
       ELSE IF dataContext \notin Arrays
            THEN attachFailed("Error", itemEventCallbacks)
            ELSE LET events == bindItemEvents([callbacks |-> itemEventCallbacks,
                                               status |-> "ok"], 1)
                 IN  IF events.status # "ok"
                     THEN attachFailed(events.status, events.callbacks)
                     ELSE /\ phase' = "attached"
                          /\ itemEventCallbacks' = events.callbacks
                          /\ dataContextUpdated(dataContext, events.callbacks)
                          /\ UNCHANGED lastError
    /\ UNCHANGED <<template, arr, dataContext, pending>>
    /\ UNCHANGED <<hvars, lastFired, invoked, pc>>
    /\ UNCHANGED cvars

\* ------------------------------------------- ObservableArray add / remove
\* The array changes and raises its event: one handler call per subscribed
\* closure, run one after the other before anything else happens.  Only
\* arrays the repeater has been bound to are followed; the content of the
\* others is drawn in Init.
Calls(n, call) == [i \in 1..n |-> call]

FreshItem ==
    LET used == UNION {{arr[a][i] : i \in 1..Len(arr[a])} : a \in Arrays}
    IN  ItemNames[CHOOSE i \in 1..Len(ItemNames) :
                      /\ ItemNames[i] \notin used
                      /\ \A j \in 1..(i - 1) : ItemNames[j] \in used]

ArrayAdd(a, position, item) ==
    /\ pending = <<>>
    /\ item = FreshItem
    /\ addSubs[a] > 0
    /\ Len(arr[a]) < MaxSize
    /\ position \in 0..Len(arr[a])
    /\ ClonesMade + addSubs[a] <= MaxClones
    /\ arr' = [arr EXCEPT ![a] = spliceIn(@, position, item)]
    /\ pending' = Calls(addSubs[a], [h |-> "itemAdded", position |-> position, item |-> item])
    /\ lastError' = "none"
    /\ UNCHANGED <<phase, template, dom, itemNodes, itemNodeBindings, dataContext,
                   addSubs, remSubs, ctxItem, ctxValue, nodeCtx, nodeText, subscribed,
                   nextBinding>>
    /\ UNCHANGED evars
    /\ UNCHANGED cvars

ArrayRemove(a, position) ==
    /\ pending = <<>>
    /\ remSubs[a] > 0
    /\ position \in 0..(Len(arr[a]) - 1)
    /\ arr' = [arr EXCEPT ![a] = spliceOut(@, position)]
    /\ pending' = Calls(remSubs[a], [h |-> "itemRemoved", position |-> position,
                                     item |-> arr[a][position + 1]])
    /\ lastError' = "none"
    /\ UNCHANGED <<phase, template, dom, itemNodes, itemNodeBindings, dataContext,
                   addSubs, remSubs, ctxItem, ctxValue, nodeCtx, nodeText, subscribed,
                   nextBinding>>
    /\ UNCHANGED evars
    /\ UNCHANGED cvars

\* ------------------------------------------------------------- itemAdded
\* a variant whose append case takes the last entry's last node itself
\* instead of that node's next sibling
refNodeForNoSibling(position) ==
    IF Len(itemNodes) = 0
    THEN nextSibling(dom, RepeaterNode)
    ELSE IF position < Len(itemNodes)
         THEN itemNodes[position + 1][1]
         ELSE LET refNodes == itemNodes[Len(itemNodes)]
              IN  refNodes[Len(refNodes)]

\* The reference node, captured before the lists are shifted
refNodeFor(position) ==
    IF Len(itemNodes) = 0
    THEN nextSibling(dom, RepeaterNode)
    ELSE IF position < Len(itemNodes)
         THEN itemNodes[position + 1][1]
         ELSE LET refNodes == itemNodes[Len(itemNodes)]
              IN  nextSibling(dom, refNodes[Len(refNodes)])

\* a variant that pushes the binding list instead of splicing it in
pushBindings(position, itemBindings) == Append(itemNodeBindings, itemBindings)

\* itemNodeBindings.splice(arg.position, 0, itemBindings)
spliceBindings(position, itemBindings) == spliceIn(itemNodeBindings, position, itemBindings)

itemAdded ==
    /\ pending # <<>>
    /\ pc = "idle"
    /\ Head(pending).h = "itemAdded"
    /\ LET arg == Head(pending)
           cloneNodes == CloneOf(0)
           refNode == refNodeFor(arg.position)
           itemBindings == RecordsOf(0)
           values == Append(ctxValue, arg.item)
           texts == Extend(nodeText, [m \in Range(cloneNodes) |-> ""])
       IN  /\ ctxItem' = Append(ctxItem, arg.item)
           /\ ctxValue' = values
           /\ nodeCtx' = Extend(nodeCtx, NewNodeCtx(1))
           /\ listeners' = Extend(listeners, NewListeners(1, itemEventCallbacks))
           /\ itemNodes' = spliceIn(itemNodes, arg.position, cloneNodes)
           /\ dom' = insertBefore(dom, cloneNodes, refNode)
           /\ subscribed' = subscribed \cup Range(itemBindings)
           /\ nextBinding' = nextBinding + BindingsPerClone
           /\ itemNodeBindings' = spliceBindings(arg.position, itemBindings)
           /\ nodeText' = resolveBindings(texts, Range(itemBindings), values)
    /\ pending' = Tail(pending)
    /\ UNCHANGED <<phase, template, arr, dataContext, addSubs, remSubs, lastError>>
    /\ UNCHANGED <<hvars, itemEventCallbacks, lastFired, invoked, bindError, pc>>
    /\ UNCHANGED cvars

\* ----------------------------------------------------------- itemRemoved
\* A position past the end reads undefined from the lists: the handler
\* throws a TypeError before it has changed anything, and the dispatch of
\* the event ends there.
\* a variant that leaves the item's bindings subscribed
bindingsKept(position) == <<>>

\* the binding records itemRemoved hands to dataBinder.releaseBindings
bindingsToRelease(position) == itemNodeBindings[position + 1]

\* a variant that always takes the first entry's nodes
firstEntryNodes(position) == itemNodes[1]

\* the nodes itemRemoved takes out of the DOM
nodesToBeRemoved(position) == itemNodes[position + 1]

itemRemoved ==
    /\ pending # <<>>
    /\ Head(pending).h = "itemRemoved"
    /\ LET arg == Head(pending)
       IN  IF arg.position < Len(itemNodeBindings) /\ arg.position < Len(itemNodes)
           THEN LET itemBindings == bindingsToRelease(arg.position)
                IN  /\ subscribed' = releaseBindings(subscribed, itemBindings)
                    /\ itemNodeBindings' = spliceOut(itemNodeBindings, arg.position)
                    /\ dom' = removeChildren(dom, Range(nodesToBeRemoved(arg.position)))
                    /\ itemNodes' = spliceOut(itemNodes, arg.position)
                    /\ pending' = Tail(pending)
                    /\ UNCHANGED lastError
           ELSE /\ lastError' = "TypeError"
                /\ pending' = <<>>
                /\ UNCHANGED <<subscribed, itemNodeBindings, dom, itemNodes>>
    /\ UNCHANGED <<phase, template, arr, dataContext, addSubs, remSubs, ctxItem, ctxValue,
                   nodeCtx, nodeText, nextBinding>>
    /\ UNCHANGED evars
    /\ UNCHANGED cvars

\* ------------------------------------------- an item data context changes
\* The Observable of an item gets a new value; every binding record still
\* subscribed to it re-renders its node.
ChangedValues == {"w"}

ItemValueChanged(ctx, value) ==
    /\ pending = <<>>
    /\ ctx \in 1..Len(ctxValue)
    /\ ctxValue[ctx] # value
    /\ ctxValue' = [ctxValue EXCEPT ![ctx] = value]
    /\ nodeText' = resolveBindings(nodeText, {r \in subscribed : r.ctx = ctx}, ctxValue')
    /\ lastError' = "none"
    /\ UNCHANGED <<phase, template, dom, itemNodes, itemNodeBindings, arr, dataContext,
                   addSubs, remSubs, pending, ctxItem, nodeCtx, subscribed, nextBinding>>
    /\ UNCHANGED evars
    /\ UNCHANGED cvars

\* ------------------------------------------------- dataContext replaced
\* every run of dataContextUpdated subscribes once more
BindsDone == addSubs["A"] + addSubs["B"]

\* dataContext.value is set (to another array, or to the same one again);
\* the subscription made in attachedCallback runs dataContextUpdated.
SetDataContext(a) ==
    /\ phase = "attached"
    /\ pending = <<>>
    /\ BindsDone < MaxBinds
    /\ a \in Arrays => ClonesMade + Len(arr[a]) <= MaxClones
    /\ dataContext' = a
    /\ dataContextUpdated(a, itemEventCallbacks)
    /\ lastError' = IF a \in Arrays THEN "none" ELSE "TypeError"
    /\ UNCHANGED <<phase, template, arr, pending>>
    /\ UNCHANGED <<hvars, itemEventCallbacks, lastFired, invoked, pc>>
    /\ UNCHANGED cvars

\* --------------------------------------------------------- specifications
ArrayEvent ==
    \E a \in Arrays :
        \/ \E position \in 0..MaxSize, item \in Items : ArrayAdd(a, position, item)
        \/ \E position \in 0..MaxSize : ArrayRemove(a, position)

ItemChange == \E ctx \in 1..MaxClones, value \in ChangedValues : ItemValueChanged(ctx, value)

Rebind == \E a \in Arrays : SetDataContext(a)

\* One bind, then array events and item changes
Next ==
    \/ attachedCallback
    \/ ArrayEvent
    \/ itemAdded
    \/ itemRemoved
    \/ ItemChange

Spec == Init /\ [][Next]_vars

\* The same, with the data context replaced any number of times
NextRebind == Next \/ Rebind

SpecRebind == Init /\ [][NextRebind]_vars

\* ------------------------------------------- itemAdded, callout by callout
\* itemAdded calls dataBinder.processBindings (line 100) after it has
\* spliced itemNodes and inserted the nodes (lines 92-95) and before it
\* splices itemNodeBindings (line 107).  Here the handler is cut at that
\* call: what runs inside the data binder sees the state in between, and
\* the call either returns or throws.
itemAddedBegin ==
    /\ pending # <<>>
    /\ pc = "idle"
    /\ Head(pending).h = "itemAdded"
    /\ LET arg == Head(pending)
           cloneNodes == CloneOf(0)
           refNode == refNodeFor(arg.position)
       IN  /\ ctxItem' = Append(ctxItem, arg.item)
           /\ ctxValue' = Append(ctxValue, arg.item)
           /\ nodeCtx' = Extend(nodeCtx, NewNodeCtx(1))
           /\ listeners' = Extend(listeners, NewListeners(1, itemEventCallbacks))
           /\ itemNodes' = spliceIn(itemNodes, arg.position, cloneNodes)
           /\ dom' = insertBefore(dom, cloneNodes, refNode)
           /\ nodeText' = Extend(nodeText, [m \in Range(cloneNodes) |-> ""])
    /\ pc' = "line100"
    /\ UNCHANGED <<phase, template, arr, dataContext, addSubs, remSubs, lastError, pending,
                   subscribed, nextBinding, itemNodeBindings>>
    /\ UNCHANGED <<hvars, itemEventCallbacks, lastFired, invoked, bindError>>
    /\ UNCHANGED cvars

\* the index, in itemNodes, of the entry the running itemAdded has spliced in
EntryInProgress ==
    LET p == Head(pending).position
    IN  (IF p > Len(itemNodes) - 1 THEN Len(itemNodes) - 1 ELSE p) + 1

\* lines 98-110 from the return of processBindings on; failing tells
\* whether dataBinder.resolveBindings (line 110) throws
itemAddedRest(failing) ==
    /\ LET arg == Head(pending)
           cloneNodes == itemNodes[EntryInProgress]
           itemBindings == processBindings(cloneNodes, nodeCtx[cloneNodes[1]], nextBinding)
       IN  /\ subscribed' = subscribed \cup Range(itemBindings)
           /\ nextBinding' = nextBinding + BindingsPerClone
           /\ itemNodeBindings' = spliceBindings(arg.position, itemBindings)
           /\ IF failing
              THEN /\ UNCHANGED nodeText
                   /\ lastError' = "BindingError"
                   /\ pending' = <<>>
              ELSE /\ nodeText' = resolveBindings(nodeText, Range(itemBindings), ctxValue)
                   /\ pending' = Tail(pending)
                   /\ UNCHANGED lastError
    /\ pc' = "idle"
    /\ UNCHANGED <<phase, template, arr, dataContext, addSubs, remSubs, ctxItem, ctxValue,
                   nodeCtx, itemNodes, dom>>
    /\ UNCHANGED <<hvars, itemEventCallbacks, listeners, lastFired, invoked, bindError>>
    /\ UNCHANGED cvars

itemAddedEnd ==
    /\ pc = "line100"
    /\ itemAddedRest(FALSE)

\* dataBinder.resolveBindings throws at line 110
resolveBindingsThrows ==
    /\ pc = "line100"
    /\ itemAddedRest(TRUE)

\* dataBinder.processBindings throws at line 100: the handler ends there,
\* and with it the dispatch of the event
processBindingsThrows ==
    /\ pc = "line100"
    /\ lastError' = "BindingError"
    /\ pending' = <<>>
    /\ pc' = "idle"
    /\ UNCHANGED <<phase, template, dom, itemNodes, itemNodeBindings, arr, dataContext,
                   addSubs, remSubs, ctxItem, ctxValue, nodeCtx, nodeText, subscribed,
                   nextBinding>>
    /\ UNCHANGED <<hvars, itemEventCallbacks, listeners, lastFired, invoked, bindError>>
    /\ UNCHANGED cvars

\* a repeater between two siblings, with a one-node or a two-node template
InitSteps ==
    Created({<<1>>, <<0, 1>>}, {<<BeforeNode, RepeaterNode, AnchorNode>>},
            {[A |-> a, B |-> <<"v">>] : a \in {<<>>, <<"x">>}}, {"A"}, {TRUE}, {<<>>},
            {NoOuter})

\* One bind, then array events handled callout by callout, with a data
\* binder that may fail
NextSteps ==
    \/ attachedCallback
    \/ ArrayEvent
    \/ itemAddedBegin
    \/ itemAddedEnd
    \/ processBindingsThrows
    \/ resolveBindingsThrows
    \/ itemRemoved

SpecSteps == InitSteps /\ [][NextSteps]_vars

\* ------------------------------------------------------------ item events
\* the DOM events fired on item nodes
EventNames == {"click", "dblclick"}

\* this.itemEventCallbacks[eventName]
callbackOf(callbacks, eventName) ==
    callbacks[CHOOSE k \in 1..Len(callbacks) : callbacks[k].eventName = eventName].callback

\* A DOM event is fired on an item node that is in the document: every
\* listener added for that event runs (line 210) and calls
\* this.itemEventCallbacks[eventName](dataContext)
FireEvent(node, event) ==
    /\ phase = "attached"
    /\ pending = <<>>
    /\ node \in Range(dom)
    /\ node >= FirstItemNode
    /\ lastFired' = [node |-> node, event |-> event]
    /\ LET running == SelectSeq(listeners[node], LAMBDA l : l.event = event)
       IN  invoked' = [k \in 1..Len(running) |->
                          [callback |-> callbackOf(itemEventCallbacks, running[k].eventName),
                           dataContext |-> running[k].dataContext]]
    /\ lastError' = "none"
    /\ UNCHANGED <<phase, template, dom, itemNodes, itemNodeBindings, arr, dataContext,
                   addSubs, remSubs, pending, ctxItem, ctxValue, nodeCtx, nodeText,
                   subscribed, nextBinding>>
    /\ UNCHANGED <<hvars, itemEventCallbacks, listeners, bindError, pc>>
    /\ UNCHANGED cvars

\* the attributes of the repeater element; an attribute's name is its
\* reserved prefix, if it has one, followed by the rest
ClassAttribute == [name |-> <<"class">>, value |-> "list"]
ClickAttribute == [name |-> <<"data-event-item-", "click">>, value |-> "onClick"]
DblClickAttribute == [name |-> <<"data-event-item-", "dblclick">>, value |-> "onDblClick"]
MissingAttribute == [name |-> <<"data-event-item-", "click">>, value |-> "onMissing"]

EventAttributeLists ==
    {<<>>,
     <<ClassAttribute, ClickAttribute>>,
     <<ClickAttribute, DblClickAttribute>>,
     <<MissingAttribute, DblClickAttribute>>}

\* A repeater with or without a template, with an array or something else as
\* data context, with item events declared or not, inside an outer
\* component or not
InitEvents ==
    Created({<<1>>}, {<<RepeaterNode, AnchorNode>>}, {[A |-> <<"x">>, B |-> <<"v">>]},
            {"A", NotAnArray}, BOOLEAN, EventAttributeLists, {NoOuter, Outer})

RebindAny == \E a \in Arrays \cup {NotAnArray} : SetDataContext(a)

ItemEvent == \E node \in FirstItemNode..(FirstItemNode + MaxClones), event \in EventNames :
                 FireEvent(node, event)

NextEvents ==
    \/ attachedCallback
    \/ ArrayEvent
    \/ itemAdded
    \/ itemRemoved
    \/ RebindAny
    \/ ItemEvent

SpecEvents == InitEvents /\ [][NextEvents]_vars

\* ======================================================== Repeater claims
Attached == phase = "attached"
Quiet == pending = <<>>
Last(seq) == seq[Len(seq)]
EntryCtx(i) == nodeCtx[itemNodes[i][1]]
BoundArray == arr[dataContext]
ItemNodesInDom == SelectSeq(dom, LAMBDA n : n >= FirstItemNode)
NodeAfter(d, n) == IF \E i \in 1..(Len(d) - 1) : d[i] = n
                   THEN d[(CHOOSE i \in 1..(Len(d) - 1) : d[i] = n) + 1]
                   ELSE Null

\* nodes form one run of d that ends right before ref (at the end when ref is null)
ImmediatelyBefore(d, nodes, ref) ==
    \E i \in 1..Len(d) :
        /\ i + Len(nodes) - 1 <= Len(d)
        /\ SubSeq(d, i, i + Len(nodes) - 1) = nodes
        /\ IF ref = Null
           THEN i + Len(nodes) - 1 = Len(d)
           ELSE i + Len(nodes) <= Len(d) /\ d[i + Len(nodes)] = ref

\* nodes form one run of d that starts right after node n
ImmediatelyAfter(d, nodes, n) ==
    \E i \in 2..Len(d) :
        /\ i + Len(nodes) - 1 <= Len(d)
        /\ SubSeq(d, i, i + Len(nodes) - 1) = nodes
        /\ d[i - 1] = n

\* a handler call that ran to its end
AddedStep ==
    /\ pending # <<>>
    /\ Head(pending).h = "itemAdded"
    /\ pending' = Tail(pending)

RemovedStep ==
    /\ pending # <<>>
    /\ Head(pending).h = "itemRemoved"
    /\ Head(pending).position < Len(itemNodes)
    /\ pending' = Tail(pending)

\* the data context was created for an item whose entry is gone
RemovedCtx(c) ==
    /\ c \in 1..Len(ctxValue)
    /\ \A i \in 1..Len(itemNodes) : EntryCtx(i) # c

\* C1: once the repeater is bound, and whenever every raised add/remove
\* event has been handled, itemNodes, itemNodeBindings and the bound array
\* have the same length, and the nodes and binding records of entry i are
\* those made for array element i.
C1_IndexAlignment ==
    (Attached /\ Quiet) =>
        /\ Len(itemNodes) = Len(BoundArray)
        /\ Len(itemNodeBindings) = Len(BoundArray)
        /\ \A i \in 1..Len(itemNodes) :
              /\ \A j \in 1..Len(itemNodes[i]) :
                    ctxItem[nodeCtx[itemNodes[i][j]]] = BoundArray[i]
              /\ \A k \in 1..Len(itemNodeBindings[i]) :
                    /\ itemNodeBindings[i][k].node \in Range(itemNodes[i])
                    /\ itemNodeBindings[i][k].ctx = EntryCtx(i)

\* two entries left after three clones: adds and a remove have been handled
C1_Witness ==
    /\ Attached /\ Quiet
    /\ Len(itemNodes) = 2
    /\ ClonesMade = 3
    /\ Len(itemNodeBindings[1]) > 0

\* C2: itemAdded(position, item) puts the new nodes right before the
\* repeater's next sibling when the list is empty, right before the first
\* node of the entry that was at `position` when 0 < position < length, and
\* right after the last node of the last entry when position = length.
C2_InsertionRule ==
    [][AddedStep =>
        LET p == Head(pending).position
            L == Len(itemNodes)
            new == itemNodes'[(IF p > L THEN L ELSE p) + 1]
        IN  /\ Range(new) \cap Range(dom) = {}
            /\ (L = 0) => ImmediatelyBefore(dom', new, NodeAfter(dom, RepeaterNode))
            /\ (0 < p /\ p < L) => ImmediatelyBefore(dom', new, itemNodes[p + 1][1])
            /\ (p = L /\ L > 0) => ImmediatelyAfter(dom', new, Last(itemNodes[L]))
      ]_vars

\* the newest group sits between two older ones: a middle insertion has run
C2_Witness ==
    /\ Attached /\ Quiet
    /\ Len(itemNodes) = 3
    /\ itemNodes[2][1] > itemNodes[1][1]
    /\ itemNodes[2][1] > itemNodes[3][1]

\* C3: the item node groups are in the DOM in index order, as one run that
\* starts right after the repeater and ends before the node that followed
\* the repeater at bind time; when every event has been handled the order
\* of the rendered items is the order of the array.
C3_DomOrder ==
    Attached =>
        LET k == IndexOf(dom, RepeaterNode)
            flat == Flatten(itemNodes)
        IN  /\ k > 0
            /\ SubSeq(dom, k + 1, k + Len(flat)) = flat
            /\ ItemNodesInDom = flat
            /\ SubSeq(dom, 1, k - 1) \in {<<>>, <<BeforeNode>>}
            /\ SubSeq(dom, k + Len(flat) + 1, Len(dom)) \in {<<>>, <<AnchorNode>>}
            /\ Quiet =>
                  [i \in 1..(Len(ItemNodesInDom) \div TplSize) |->
                      ctxItem[nodeCtx[ItemNodesInDom[(i - 1) * TplSize + 1]]]] = BoundArray

\* y was added at position 0 of a rendered [x]
C3_Witness ==
    /\ Attached /\ Quiet
    /\ BoundArray = <<"y", "x">>
    /\ Len(itemNodes) = 2
    /\ itemNodes[1][1] > itemNodes[2][1]
    /\ AnchorNode \in Range(dom)

\* C4: itemRemoved(p) leaves none of the item's binding records subscribed
\* and none of its nodes in the document, and a later change of a removed
\* item's data context changes no node text and nothing in the DOM.
C4_RemovalCleanup ==
    [][ /\ RemovedStep =>
              LET p == Head(pending).position
              IN  /\ subscribed' \cap Range(itemNodeBindings[p + 1]) = {}
                  /\ Range(dom') \cap Range(itemNodes[p + 1]) = {}
        /\ \A c \in 1..Len(ctxValue) :
              (RemovedCtx(c) /\ Len(ctxValue') = Len(ctxValue) /\ ctxValue'[c] # ctxValue[c])
                  => (nodeText' = nodeText /\ dom' = dom)
      ]_vars

\* position 1 of [x, y, z] was removed and y's data context changed after that
C4_Witness ==
    /\ Attached /\ Quiet
    /\ BoundArray = <<"x", "z">>
    /\ Len(itemNodes) = 2
    /\ \E c \in 1..Len(ctxValue) :
          /\ RemovedCtx(c)
          /\ ctxItem[c] = "y"
          /\ ctxValue[c] = "w"
          /\ \E n \in DOMAIN nodeCtx :
                /\ nodeCtx[n] = c
                /\ template[((n - FirstItemNode) % TplSize) + 1] > 0
                /\ nodeText[n] = "y"
                /\ n \notin Range(dom)

\* C5: after any rebind the repeater holds exactly one subscription to the
\* add and remove events of the bound array and none to those of any other
\* array, and only the binding records of the rendered entries are subscribed.
C5_RebindClean ==
    Attached =>
        /\ \A a \in Arrays :
              /\ addSubs[a] = (IF a = dataContext THEN 1 ELSE 0)
              /\ remSubs[a] = (IF a = dataContext THEN 1 ELSE 0)
        /\ Quiet => subscribed = UNION {Range(itemNodeBindings[i]) : i \in 1..Len(itemNodeBindings)}

\* C6: itemAdded and itemRemoved leave every other entry as it was: same
\* nodes in the same relative DOM order with the same text, same binding
\* records with the same subscriptions; its index moves by +1 at or after
\* the insertion position and by -1 after the removal position.
SurvivorsKept(old, new, shift(_)) ==
    \A i \in 1..Len(old) : shift(i) # 0 => new[shift(i)] = old[i]

C6_Frame ==
    [][ /\ AddedStep =>
              LET p == Head(pending).position
                  q == IF p > Len(itemNodes) THEN Len(itemNodes) ELSE p
                  oldRecords == UNION {Range(itemNodeBindings[i]) : i \in 1..Len(itemNodeBindings)}
                  oldNodes == Range(Flatten(itemNodes))
              IN  /\ SurvivorsKept(itemNodes, itemNodes', LAMBDA i : IF i <= q THEN i ELSE i + 1)
                  /\ SurvivorsKept(itemNodeBindings, itemNodeBindings',
                                   LAMBDA i : IF i <= q THEN i ELSE i + 1)
                  /\ Len(itemNodes') = Len(itemNodes) + 1
                  /\ SelectSeq(dom', LAMBDA n : n \in Range(dom)) = dom
                  /\ subscribed' \cap oldRecords = subscribed \cap oldRecords
                  /\ \A n \in oldNodes : nodeText'[n] = nodeText[n]
        /\ RemovedStep =>
              LET p == Head(pending).position
                  keptRecords == UNION {Range(itemNodeBindings[i]) :
                                           i \in (1..Len(itemNodeBindings)) \ {p + 1}}
                  keptNodes == UNION {Range(itemNodes[i]) : i \in (1..Len(itemNodes)) \ {p + 1}}
              IN  /\ SurvivorsKept(itemNodes, itemNodes',
                                   LAMBDA i : IF i <= p THEN i ELSE IF i = p + 1 THEN 0 ELSE i - 1)
                  /\ SurvivorsKept(itemNodeBindings, itemNodeBindings',
                                   LAMBDA i : IF i <= p THEN i ELSE IF i = p + 1 THEN 0 ELSE i - 1)
                  /\ Len(itemNodes') = Len(itemNodes) - 1
                  /\ SelectSeq(dom, LAMBDA n : n \notin Range(itemNodes[p + 1])) = dom'
                  /\ subscribed' \cap keptRecords = subscribed \cap keptRecords
                  /\ \A n \in keptNodes : nodeText'[n] = nodeText[n]
      ]_vars

\* the newest group is in front of two older ones, which moved up by one
C6_Witness ==
    /\ Attached /\ Quiet
    /\ Len(itemNodes) = 3
    /\ itemNodes[1][1] > itemNodes[2][1]
    /\ itemNodes[1][1] > itemNodes[3][1]
    /\ subscribed # {}

\* ============================================================= Component
\* The DOM below the component's root is a tree of node records:
\*   nid   the node's identity (it never changes)
\*   type  1 for an element, 3 for a text node
\*   value nodeValue of a text node: a sequence of pieces, each piece a
\*         literal or a {{path}} token
\*   id    the number n of an element whose id is "BindingElement" + n, or -1
\*   comp  the element carries the data-component attribute
\*   kids  childNodes
MaxKids == 3
MaxRemoved == 1

Paths == {"title", "a", "b"}
Tokens == {"{{title}}", "{{a}}", "{{b}}"}

\* matches[i].substr(2, matches[i].length - 4)
PathOfToken(token) ==
    CASE token = "{{title}}" -> "title"
      [] token = "{{a}}" -> "a"
      [] token = "{{b}}" -> "b"

\* the values the observables take: plain text, without braces
Values == {"", "World", "x"}

Texts == {<<"Hello ", "{{title}}">>, <<"{{a}}", " and ", "{{b}}">>, <<"plain">>}

TextNode(nid, text) ==
    [nid |-> nid, type |-> 3, value |-> text, id |-> -1, comp |-> FALSE, kids |-> <<>>]

Element(nid, comp, kids) ==
    [nid |-> nid, type |-> 1, value |-> <<>>, id |-> -1, comp |-> comp, kids |-> kids]

\* <p>text</p>, and the same with data-component
Para(nid, text) == Element(nid, FALSE, <<TextNode(nid + 1, text)>>)
CompPara(nid, text) == Element(nid, TRUE, <<TextNode(nid + 1, text)>>)

\* The parsed templates the constructor is run on
Templates ==
    \* the text alone
    {<<TextNode(10, t)>> : t \in Texts}
    \* 1..MaxKids paragraphs with the same text, side by side at the top level
    \cup UNION {{[j \in 1..n |-> Para(10 * j, t)] : t \in Texts} : n \in 1..MaxKids}
    \* the same inside one <div>
    \cup UNION {{<<Element(100, FALSE, [j \in 1..n |-> Para(10 * j, ts[j])])>> :
                    ts \in [1..n -> Texts]} : n \in 1..MaxKids}
    \* <p>text<br>text</p>
    \cup {<<Element(100, FALSE, <<TextNode(10, ts[1]), Element(20, FALSE, <<>>),
                                  TextNode(30, ts[2])>>)>> : ts \in [1..2 -> Texts]}
    \* <div><p data-component>text</p><p>text</p></div>
    \cup {<<Element(100, FALSE, <<CompPara(10, ts[1]), Para(20, ts[2])>>)>> :
             ts \in [1..2 -> Texts]}

RepeaterIdle ==
    /\ phase = "idle"
    /\ template = <<>>
    /\ dom = <<>>
    /\ itemNodes = <<>>
    /\ itemNodeBindings = <<>>
    /\ arr = <<>>
    /\ dataContext = ""
    /\ addSubs = <<>>
    /\ remSubs = <<>>
    /\ pending = <<>>
    /\ ctxItem = <<>>
    /\ ctxValue = <<>>
    /\ nodeCtx = <<>>
    /\ nodeText = <<>>
    /\ subscribed = {}
    /\ nextBinding = 1
    /\ lastError = "none"
    /\ templateChild = FALSE
    /\ hostAttributes = <<>>
    /\ outerComponent = <<>>
    /\ itemEventCallbacks = <<>>
    /\ listeners = <<>>
    /\ lastFired = NoEvent
    /\ invoked = <<>>
    /\ bindError = "none"
    /\ pc = "idle"

\* the root element's node id, and the elements of the document that are
\* not the component's: one in document.body, one below the parent
\* component's root, one that is in no document
RootId == 0
BodyElement == 201
ParentElement == 202
DetachedElement == 203
Undefined == -2
\* the parent component object
Parent == 1

\* the attributes of the template script element; an attribute's name is
\* its reserved prefix, if it has one, followed by the rest
RootTag == [name |-> <<"data-root-tag">>, value |-> "div"]
PropertyAttribute == [name |-> <<"data-property-", "title">>, value |-> "{{a}}"]

NoCall == [op |-> "none", replaceElement |-> Undefined]

\* propertyBindings = {}: no key holds an array (line 31)
NoBindings == [keys |-> {}, records |-> [p \in Paths |-> <<>>]]

\* the state before the constructor runs, for a given template, attribute
\* list and parent
BeforeConstruction(templates, attributeLists, parents) ==
    /\ RepeaterIdle
    /\ cphase = "template"
    /\ tpl \in templates
    /\ rootHtmlElement = Element(RootId, FALSE, <<>>)
    /\ textBindings = [p \in Paths |-> <<>>]
    /\ pathValue = [p \in Paths |-> ""]
    /\ bindingIdCounter = 0
    /\ cstatus = "ok"
    /\ lastPath = ""
    /\ attributes \in attributeLists
    /\ parentComponent \in parents
    /\ parentValue = [p \in Paths |-> ""]
    /\ parentSubs = [p \in Paths |-> <<>>]
    /\ propertyBindings = NoBindings
    /\ subscribers = [p \in Paths |-> 0]
    /\ isShowing = FALSE
    /\ body = <<BodyElement>>
    /\ parentRoot = IF parentComponent = Null THEN <<>> ELSE <<ParentElement>>
    /\ lastCall = NoCall

\* a component without property bindings and without a parent
InitComponent == BeforeConstruction(Templates, {<<RootTag>>}, {Null})

\* --------------------------------------------------- resolveBindingText
\* text.match(Component.bindingRegex): the tokens of the text, in order
match(text) == SelectSeq(text, LAMBDA piece : piece \in Tokens)

\* String.replace(token, v): the first occurrence only
replace(text, token, v) ==
    IF \E i \in 1..Len(text) : text[i] = token
    THEN LET first == CHOOSE i \in 1..Len(text) :
                          text[i] = token /\ \A j \in 1..(i - 1) : text[j] # token
         IN  [text EXCEPT ![first] = v]
    ELSE text

RECURSIVE replaceAll(_, _, _, _)
replaceAll(text, matches, i, values) ==
    IF i > Len(matches) THEN text
    ELSE replaceAll(replace(text, matches[i], values[PathOfToken(matches[i])]),
                    matches, i + 1, values)

\* a variant that stops after the first match
resolveFirstMatch(text, values) == replaceAll(text, SubSeq(match(text), 1, 1), 1, values)

\* lines 161-169
resolveBindingText(text, values) == replaceAll(text, match(text), 1, values)

\* ------------------------------------------------------ processElements
\* the positions, within childNodes, of the text nodes (lines 84-89)
TextNodePositions(el) == SelectSeq([i \in 1..Len(el.kids) |-> i], LAMBDA i : el.kids[i].type = 3)

\* lines 102-118: one record per match, appended under the match's path
RECURSIVE addRecords(_, _, _, _, _, _)
addRecords(tb, matches, j, bindingId, textNodeIndex, bindingText) ==
    IF j > Len(matches) THEN tb
    ELSE LET path == PathOfToken(matches[j])
             bindingInfo == [elementBindingId |-> bindingId, textNodeIndex |-> textNodeIndex,
                             bindingPath |-> path, bindingText |-> bindingText]
         IN  addRecords([tb EXCEPT ![path] = Append(@, bindingInfo)],
                        matches, j + 1, bindingId, textNodeIndex, bindingText)

\* lines 91-121: the loop over the element's text nodes.  st carries the
\* element, the registry and the id counter.
RECURSIVE scanTextNodes(_, _, _, _)
scanTextNodes(st, textNodes, i, bindingId) ==
    IF i >= Len(textNodes) THEN st
    ELSE LET node == st.el.kids[textNodes[i + 1]]
             matches == match(node.value)
         IN  IF matches = <<>>
             THEN scanTextNodes(st, textNodes, i + 1, bindingId)
             ELSE LET newId == IF bindingId = -1 THEN st.counter ELSE bindingId
                      counter == IF bindingId = -1 THEN st.counter + 1 ELSE st.counter
                      tb == addRecords(st.tb, matches, 1, newId, i, node.value)
                      el == [st.el EXCEPT !.id = newId,
                                          !.kids[textNodes[i + 1]].value =
                                              resolveBindingText(node.value, st.values)]
                  IN  scanTextNodes([st EXCEPT !.el = el, !.tb = tb, !.counter = counter],
                                    textNodes, i + 1, newId)

\* processSubComponent: the subcomponent's root takes the element's place
\* (show(element): insertBefore + removeChild)
SubComponentRoot(element) == Element(element.nid + 1000, FALSE, <<>>)

RECURSIVE processElements(_)
RECURSIVE scanChildElements(_, _)

\* lines 126-131: the loop over the child elements
scanChildElements(st, i) ==
    IF i > Len(st.el.kids) THEN st
    ELSE IF st.el.kids[i].type = 1
         THEN LET sub == processElements([st EXCEPT !.el = st.el.kids[i]])
              IN  scanChildElements([sub EXCEPT !.el = [st.el EXCEPT !.kids[i] = sub.el]], i + 1)
         ELSE scanChildElements(st, i + 1)

processElements(st) ==
    LET scanned == scanTextNodes(st, TextNodePositions(st.el), 0, -1)
    IN  IF scanned.el.comp
        THEN [scanned EXCEPT !.el = SubComponentRoot(scanned.el)]
        ELSE scanChildElements(scanned, 1)

\* ----------------------------------------------------------- constructor
\* a variant that moves every top-level node
transferAll(nodes, i) == nodes

\* lines 73-75: body.childNodes is live, so every appendChild shortens it
\* while i goes up: the nodes moved are those that are at index i of what is
\* left
RECURSIVE transfer(_, _)
transfer(bodyChildNodes, i) ==
    IF i >= Len(bodyChildNodes) THEN <<>>
    ELSE <<bodyChildNodes[i + 1]>>
         \o transfer(SubSeq(bodyChildNodes, 1, i) \o SubSeq(bodyChildNodes, i + 2, Len(bodyChildNodes)),
                     i + 1)

\* lines 49-69: the loop over the template's attributes.  st carries
\* propertyBindings, the parent's subscriber lists and the status; a throw
\* ends the loop.  Line 56 initialises textBindings[bindingPath] and leaves
\* propertyBindings[bindingPath] as it is.
RECURSIVE processPropertyBindings(_, _)
processPropertyBindings(st, i) ==
    IF i > Len(attributes) THEN st
    ELSE LET attributeName == attributes[i].name
             attributeValue == attributes[i].value
         IN  IF attributeName[1] # "data-property-"
             THEN processPropertyBindings(st, i + 1)
             ELSE LET bindingPath == PathOfToken(attributeValue)
                      propertyName == attributeName[2]
                      bindingInfo == [bindingPath |-> bindingPath,
                                      bindingProperty |-> propertyName]
                  IN  IF parentComponent = Null
                      THEN \* line 66 reads a property of undefined
                           [st EXCEPT !.status = "TypeError"]
                      ELSE LET subscribed_ == [st EXCEPT !.subs[bindingPath] = Append(@, bindingInfo)]
                           IN  IF bindingPath \notin st.pb.keys
                               THEN \* line 67 calls push on undefined
                                    [subscribed_ EXCEPT !.status = "TypeError"]
                               ELSE processPropertyBindings(
                                        [subscribed_ EXCEPT !.pb.records[bindingPath] =
                                                                Append(@, bindingInfo)],
                                        i + 1)

constructor ==
    /\ cphase = "template"
    /\ LET props == processPropertyBindings([pb |-> propertyBindings, subs |-> parentSubs,
                                             status |-> "ok"], 1)
           root == [rootHtmlElement EXCEPT !.kids = transfer(tpl, 0)]
           done == processElements([el |-> root, tb |-> textBindings,
                                    counter |-> bindingIdCounter, values |-> pathValue])
       IN  /\ propertyBindings' = props.pb
           /\ parentSubs' = props.subs
           /\ IF props.status = "ok"
              THEN /\ rootHtmlElement' = done.el
                   /\ textBindings' = done.tb
                   /\ bindingIdCounter' = done.counter
                   /\ subscribers' = [p \in Paths |-> Len(done.tb[p])]
                   /\ cphase' = "constructed"
                   /\ UNCHANGED cstatus
              ELSE \* the constructor throws: the object stays as line 45 left it
                   /\ cphase' = "failed"
                   /\ cstatus' = props.status
                   /\ UNCHANGED <<rootHtmlElement, textBindings, bindingIdCounter, subscribers>>
    /\ UNCHANGED <<tpl, pathValue, lastPath, attributes, parentComponent, parentValue,
                   isShowing, body, parentRoot, lastCall>>
    /\ UNCHANGED rvars

\* --------------------------------------------------- triggerBindingUpdate
\* rootHtmlElement.querySelector("#BindingElement" + id): the elements
\* below the root, never the root itself
RECURSIVE Descendants(_)
Descendants(el) ==
    UNION {{el.kids[i]} \cup Descendants(el.kids[i]) : i \in 1..Len(el.kids)}

querySelectorFinds(root, bindingId) ==
    \E e \in Descendants(root) : e.type = 1 /\ e.id = bindingId

\* lines 149-157 on the element found: the text node number textNodeIndex,
\* counting text nodes only, gets the template re-evaluated
patchTextNode(el, textNodeIndex, text) ==
    LET textNodes == TextNodePositions(el)
    IN  IF textNodeIndex < Len(textNodes)
        THEN [el EXCEPT !.kids[textNodes[textNodeIndex + 1]].value = text]
        ELSE el

RECURSIVE patchBelow(_, _, _, _)
patchBelow(el, bindingId, textNodeIndex, text) ==
    [el EXCEPT !.kids =
        [i \in 1..Len(el.kids) |->
            IF el.kids[i].type = 1 /\ el.kids[i].id = bindingId
            THEN patchTextNode(el.kids[i], textNodeIndex, text)
            ELSE patchBelow(el.kids[i], bindingId, textNodeIndex, text)]]

childCount(root, bindingId) ==
    Len((CHOOSE e \in Descendants(root) : e.type = 1 /\ e.id = bindingId).kids)

\* a variant with an index of its own for the inner loop
nextIndexOwn(i, childNodesLength) == i + 1

\* The inner loop of line 149 counts with the same var i as the outer loop
\* of line 144: it leaves i at childNodes.length, and the outer i++ follows
nextIndex(i, childNodesLength) == childNodesLength + 1

\* lines 144-158.  The outer loop's state is i alone (the patches do not
\* depend on the order), so coming back to an index already used means the
\* loop never ends.
RECURSIVE bindingLoop(_, _, _, _, _)
bindingLoop(root, bindings, i, used, values) ==
    IF i >= Len(bindings) THEN [status |-> "ok", root |-> root]
    ELSE IF i \in used THEN [status |-> "hung", root |-> root]
    ELSE IF root.nid = Null
         THEN \* this.rootHtmlElement is null (after destroy): line 146 throws
              [status |-> "TypeError", root |-> root]
    ELSE LET binding == bindings[i + 1]
         IN  IF ~querySelectorFinds(root, binding.elementBindingId)
             THEN [status |-> "TypeError", root |-> root]
             ELSE bindingLoop(patchBelow(root, binding.elementBindingId, binding.textNodeIndex,
                                         resolveBindingText(binding.bindingText, values)),
                              bindings,
                              nextIndex(i, childCount(root, binding.elementBindingId)),
                              used \cup {i}, values)

triggerBindingUpdate(root, path, values) ==
    bindingLoop(root, textBindings[path], 0, {}, values)

\* Observable.value set: every updateCallback subscribed to the path's
\* Observable runs (line 116 subscribes one per TextBindingInfo record); a
\* throw ends the notification
RECURSIVE notify(_, _, _, _)
notify(root, path, n, values) ==
    IF n = 0 THEN [status |-> "ok", root |-> root]
    ELSE LET r == triggerBindingUpdate(root, path, values)
         IN  IF r.status # "ok" THEN r ELSE notify(r.root, path, n - 1, values)

SetValue(path, v) ==
    /\ cphase \in {"constructed", "destroyed"}
    /\ pathValue[path] # v
    /\ pathValue' = [pathValue EXCEPT ![path] = v]
    /\ LET r == notify(rootHtmlElement, path, subscribers[path], pathValue')
       IN  /\ rootHtmlElement' = r.root
           /\ cstatus' = IF r.status = "hung" THEN cstatus ELSE r.status
           /\ cphase' = IF r.status = "hung" THEN "hung" ELSE cphase
    /\ lastPath' = path
    /\ UNCHANGED <<tpl, textBindings, bindingIdCounter>>
    /\ UNCHANGED lvars
    /\ UNCHANGED rvars

\* ---------------------------------------------- an owner element goes away
\* Code outside the component takes an element that owns text bindings out
\* of the DOM
RECURSIVE removeBelow(_, _)
removeBelow(el, bindingId) ==
    LET kept == SelectSeq(el.kids, LAMBDA k : ~(k.type = 1 /\ k.id = bindingId))
    IN  [el EXCEPT !.kids = [i \in 1..Len(kept) |-> removeBelow(kept[i], bindingId)]]

\* the ids handed out whose element is no longer in the component's DOM
MissingOwners ==
    {bindingId \in 0..(bindingIdCounter - 1) :
        /\ ~querySelectorFinds(rootHtmlElement, bindingId)
        /\ rootHtmlElement.id # bindingId}

RemoveElement(bindingId) ==
    /\ cphase = "constructed"
    /\ Cardinality(MissingOwners) < MaxRemoved
    /\ querySelectorFinds(rootHtmlElement, bindingId)
    /\ rootHtmlElement' = removeBelow(rootHtmlElement, bindingId)
    /\ UNCHANGED <<cphase, tpl, textBindings, pathValue, bindingIdCounter, cstatus, lastPath>>
    /\ UNCHANGED lvars
    /\ UNCHANGED rvars

ValueChange == \E path \in Paths, v \in Values : SetValue(path, v)

ElementRemoval == \E bindingId \in 0..(2 * MaxKids) : RemoveElement(bindingId)

NextComponent ==
    \/ constructor
    \/ ValueChange
    \/ ElementRemoval

SpecComponent == InitComponent /\ [][NextComponent]_vars

\* ------------------------------------------------------------ show / hide
\* a node leaves the child list that holds it
without(list, n) == SelectSeq(list, LAMBDA m : m # n)

\* parent.appendChild(n)
appendChild(list, n) == Append(without(list, n), n)

\* a variant that leaves the replaced element where it is (line 181 left out)
insertOnly(list, n, replaceElement) == insertBefore(list, <<n>>, replaceElement)

\* lines 180-181: insertBefore(n, replaceElement), then removeChild(replaceElement)
replaceChild(list, n, replaceElement) ==
    without(insertBefore(list, <<n>>, replaceElement), replaceElement)

\* whether the root element has a parent node
RootAttached == RootId \in Range(body) \cup Range(parentRoot)

\* lines 171-186
show(replaceElement) ==
    /\ cphase = "constructed"
    /\ lastCall' = [op |-> "show", replaceElement |-> replaceElement]
    /\ IF isShowing
       THEN UNCHANGED <<isShowing, body, parentRoot, cstatus>>
       ELSE IF replaceElement # Undefined
            THEN IF replaceElement \in Range(body)
                 THEN /\ body' = replaceChild(without(body, RootId), RootId, replaceElement)
                      /\ parentRoot' = without(parentRoot, RootId)
                      /\ isShowing' = TRUE
                      /\ cstatus' = "ok"
                 ELSE IF replaceElement \in Range(parentRoot)
                      THEN /\ parentRoot' = replaceChild(without(parentRoot, RootId), RootId,
                                                         replaceElement)
                           /\ body' = without(body, RootId)
                           /\ isShowing' = TRUE
                           /\ cstatus' = "ok"
                      ELSE \* replaceElement.parentNode is null: line 180 throws
                           /\ cstatus' = "TypeError"
                           /\ UNCHANGED <<isShowing, body, parentRoot>>
            ELSE /\ IF parentComponent # Null
                    THEN /\ parentRoot' = appendChild(parentRoot, RootId)
                         /\ body' = without(body, RootId)
                    ELSE /\ body' = appendChild(body, RootId)
                         /\ parentRoot' = without(parentRoot, RootId)
                 /\ isShowing' = TRUE
                 /\ cstatus' = "ok"
    /\ UNCHANGED <<cphase, tpl, rootHtmlElement, textBindings, pathValue, bindingIdCounter,
                   lastPath, attributes, parentComponent, parentValue, parentSubs,
                   propertyBindings, subscribers>>
    /\ UNCHANGED rvars

\* lines 188-195, as the values hide() leaves behind
hidden ==
    IF ~isShowing
    THEN [isShowing |-> isShowing, body |-> body, parentRoot |-> parentRoot, status |-> "ok"]
    ELSE IF RootAttached
         THEN [isShowing |-> FALSE, body |-> without(body, RootId),
               parentRoot |-> without(parentRoot, RootId), status |-> "ok"]
         ELSE \* rootHtmlElement.parentElement is null: line 193 throws
              [isShowing |-> isShowing, body |-> body, parentRoot |-> parentRoot,
               status |-> "TypeError"]

hide ==
    /\ cphase = "constructed"
    /\ lastCall' = [op |-> "hide", replaceElement |-> Undefined]
    /\ isShowing' = hidden.isShowing
    /\ body' = hidden.body
    /\ parentRoot' = hidden.parentRoot
    /\ cstatus' = IF isShowing THEN hidden.status ELSE cstatus
    /\ UNCHANGED <<cphase, tpl, rootHtmlElement, textBindings, pathValue, bindingIdCounter,
                   lastPath, attributes, parentComponent, parentValue, parentSubs,
                   propertyBindings, subscribers>>
    /\ UNCHANGED rvars

\* ---------------------------------------------------------------- destroy
\* this.rootHtmlElement = null
NullElement == Element(Null, FALSE, <<>>)

\* lines 197-203: hide, then the two references are dropped; nothing is
\* unsubscribed
destroy ==
    /\ cphase = "constructed"
    /\ lastCall' = [op |-> "hide", replaceElement |-> Undefined]
    /\ isShowing' = hidden.isShowing
    /\ body' = hidden.body
    /\ parentRoot' = hidden.parentRoot
    /\ cstatus' = hidden.status
    /\ IF hidden.status = "ok"
       THEN /\ rootHtmlElement' = NullElement
            /\ parentComponent' = Null
            /\ cphase' = "destroyed"
       ELSE UNCHANGED <<rootHtmlElement, parentComponent, cphase>>
    /\ UNCHANGED <<tpl, textBindings, pathValue, bindingIdCounter, lastPath, attributes,
                   parentValue, parentSubs, propertyBindings, subscribers>>
    /\ UNCHANGED rvars

\* ------------------------------------------- the parent's observable changes
\* parentComponent[path].value is set: the updateCallbacks of lines 62-64
\* subscribed to it run in order, each setting this[propertyName].value,
\* which in turn notifies the subscribers of that observable
RECURSIVE runPropertyCallbacks(_, _, _, _)
runPropertyCallbacks(callbacks, k, newValue, st) ==
    IF k > Len(callbacks) \/ st.status # "ok" THEN st
    ELSE LET propertyName == callbacks[k].bindingProperty
             values == [st.values EXCEPT ![propertyName] = newValue]
             r == IF st.values[propertyName] = newValue
                  THEN [status |-> "ok", root |-> st.root]
                  ELSE notify(st.root, propertyName, subscribers[propertyName], values)
         IN  runPropertyCallbacks(callbacks, k + 1, newValue,
                                  [values |-> values, root |-> r.root, status |-> r.status])

ParentSetValue(path, v) ==
    /\ cphase \in {"constructed", "failed", "destroyed"}
    /\ Len(parentSubs[path]) > 0
    /\ parentValue[path] # v
    /\ parentValue' = [parentValue EXCEPT ![path] = v]
    /\ LET r == runPropertyCallbacks(parentSubs[path], 1, v,
                                     [values |-> pathValue, root |-> rootHtmlElement,
                                      status |-> "ok"])
       IN  /\ pathValue' = r.values
           /\ rootHtmlElement' = r.root
           /\ cstatus' = IF r.status = "hung" THEN cstatus ELSE r.status
           /\ cphase' = IF r.status = "hung" THEN "hung" ELSE cphase
    /\ UNCHANGED <<tpl, textBindings, bindingIdCounter, lastPath, attributes, parentComponent,
                   parentSubs, propertyBindings, subscribers, isShowing, body, parentRoot,
                   lastCall>>
    /\ UNCHANGED rvars

\* ------------------------------------------------- the component's life
\* A component with or without a property binding and a parent, from
\* construction over show and hide to destroy
LifecycleTemplates ==
    {<<Element(100, FALSE, <<Para(10, <<"Hello ", "{{title}}">>)>>)>>,
     <<Para(10, <<"plain">>)>>}

InitLifecycle ==
    BeforeConstruction(LifecycleTemplates, {<<RootTag>>, <<RootTag, PropertyAttribute>>},
                       {Null, Parent})

Show ==
    \E replaceElement \in {Undefined, BodyElement, ParentElement, DetachedElement} :
        show(replaceElement)

ParentValueChange == \E path \in Paths, v \in Values : ParentSetValue(path, v)

NextLifecycle ==
    \/ constructor
    \/ Show
    \/ hide
    \/ destroy
    \/ ValueChange
    \/ ParentValueChange

SpecLifecycle == InitLifecycle /\ [][NextLifecycle]_vars

\* ======================================================= Component claims
Constructed == cphase = "constructed"
DomNodes == Descendants(rootHtmlElement)
TemplateNodes == UNION {{tpl[i]} \cup Descendants(tpl[i]) : i \in 1..Len(tpl)}
TemplateText(nid) == (CHOOSE n \in TemplateNodes : n.nid = nid).value

\* the template with every token replaced by the current value of its path
Expected(text) ==
    [i \in 1..Len(text) |->
        IF text[i] \in Tokens THEN pathValue[PathOfToken(text[i])] ELSE text[i]]

RecordsOfPath(path) == {textBindings[path][i] : i \in 1..Len(textBindings[path])}

\* the text node a record points at, when its owner element is below the root
BoundTextNode(record) ==
    LET owner == CHOOSE e \in DomNodes : e.type = 1 /\ e.id = record.elementBindingId
    IN  owner.kids[TextNodePositions(owner)[record.textNodeIndex + 1]]

\* the owner element of the record is gone from the component's DOM
Stale(record) ==
    /\ ~querySelectorFinds(rootHtmlElement, record.elementBindingId)
    /\ rootHtmlElement.id # record.elementBindingId

MultiText == <<"{{a}}", " and ", "{{b}}">>
HelloText == <<"Hello ", "{{title}}">>

C8_EveryRecordPatched ==
    (Constructed /\ cstatus = "ok" /\ lastPath \in Paths) =>
        \A record \in RecordsOfPath(lastPath) :
            querySelectorFinds(rootHtmlElement, record.elementBindingId)
                => BoundTextNode(record).value = Expected(record.bindingText)

\* C9: in a component whose template holds the text "Hello {{title}}" once,
\* with title set to "World" the text node (the same node) reads
\* "Hello World".
C9_HelloWorld ==
    (Constructed /\ pathValue["title"] = "World" /\ Len(textBindings["title"]) = 1) =>
        \A n \in DomNodes :
            (n.type = 3 /\ TemplateText(n.nid) = HelloText)
                => n.value = <<"Hello ", "World">>

\* C10: when the path set last has a record whose owner element is gone,
\* no error was raised and every other record of the path was patched.
C10_StaleNoOp ==
    (Constructed /\ lastPath \in Paths /\ \E record \in RecordsOfPath(lastPath) : Stale(record)) =>
        /\ cstatus = "ok"
        /\ \A record \in RecordsOfPath(lastPath) :
              querySelectorFinds(rootHtmlElement, record.elementBindingId)
                  => BoundTextNode(record).value = Expected(record.bindingText)

\* C18: triggerBindingUpdate returns for every binding registry: no value
\* change leaves the component inside a call that never ends.
C18_Terminates == cphase # "hung"

\* the node ids of a child list, in order
Nids(nodes) == [i \in 1..Len(nodes) |-> nodes[i].nid]

\* C20: after construction the children of the root element are the
\* top-level nodes of the parsed template, all of them and in template order.
C20_AllTransferred ==
    Constructed => Nids(rootHtmlElement.kids) = Nids(tpl)

\* ======================================================= lifecycle claims
\* the data-property attributes of the template
DeclaredProperties == {k \in 1..Len(attributes) : attributes[k].name[1] = "data-property-"}

\* C11: once the constructor has run, for a component with a parent, on a
\* template that declares a property binding data-property-X = {{p}},
\* construction has completed and exactly one PropertyBindingInfo is
\* registered under p.
C11_PropertyBinding ==
    (cphase \notin {"idle", "template"} /\ DeclaredProperties # {} /\ parentComponent # Null) =>
        /\ cphase # "failed"
        /\ \A k \in DeclaredProperties :
              LET p == PathOfToken(attributes[k].value)
              IN  /\ p \in propertyBindings.keys
                  /\ Len(propertyBindings.records[p]) = 1

\* C17: after destroy() no update callback of the component is subscribed
\* to any observable, and no later change of an observable raises an error.
C17_DestroyReleases ==
    cphase = "destroyed" =>
        /\ \A p \in Paths : subscribers[p] = 0 /\ parentSubs[p] = <<>>
        /\ cstatus = "ok"

\* how often the root element occurs in the two child lists
RootCount(b, pr) ==
    Len(SelectSeq(b, LAMBDA n : n = RootId)) + Len(SelectSeq(pr, LAMBDA n : n = RootId))

\* the list with n in the place of element e
Substitute(list, e, n) == [i \in 1..Len(list) |-> IF list[i] = e THEN n ELSE list[i]]

\* C19: on a constructed component isShowing is true exactly when the root
\* element is attached, and it is attached at most once; a call that leaves
\* isShowing as it was (show while showing, hide while hidden) changes no
\* child list; a show that takes effect attaches the root and moves nothing
\* else, and with a replaceElement the root takes that element's place and
\* the element is detached; a hide that takes effect detaches the root only.
C19_ShowHide ==
    [][ cphase' = "constructed" =>
          /\ RootCount(body', parentRoot') <= 1
          /\ isShowing' <=> (RootCount(body', parentRoot') = 1)
          /\ cphase = "constructed" =>
                /\ (isShowing' = isShowing) => (body' = body /\ parentRoot' = parentRoot)
                /\ (~isShowing /\ isShowing') =>
                      LET e == lastCall'.replaceElement
                      IN  /\ lastCall'.op = "show"
                          /\ IF e = Undefined
                             THEN /\ SelectSeq(body', LAMBDA n : n # RootId) = body
                                  /\ SelectSeq(parentRoot', LAMBDA n : n # RootId) = parentRoot
                             ELSE /\ e \in Range(body) \cup Range(parentRoot)
                                  /\ e \notin Range(body') \cup Range(parentRoot')
                                  /\ body' = Substitute(body, e, RootId)
                                  /\ parentRoot' = Substitute(parentRoot, e, RootId)
                /\ (isShowing /\ ~isShowing') =>
                      /\ lastCall'.op = "hide"
                      /\ body' = SelectSeq(body, LAMBDA n : n # RootId)
                      /\ parentRoot' = SelectSeq(parentRoot, LAMBDA n : n # RootId)
      ]_vars

\* the root was shown in place of the body's element, hidden, and shown
\* again in place of the element below the parent's root
C19_Witness ==
    /\ Constructed
    /\ isShowing
    /\ lastCall = [op |-> "show", replaceElement |-> ParentElement]
    /\ body = <<>>
    /\ parentRoot = <<RootId>>

\* ================================================== bind and event claims
\* the data-event-item- attributes of the repeater element
DeclaredEvents == {k \in 1..Len(hostAttributes) : hostAttributes[k].name[1] = "data-event-item-"}

\* C12: after a bind (at attachment or at a later dataContext change) of a
\* repeater without a template child, or with a dataContext.value that is
\* not an ObservableArray, the bind has raised the configuration Error, no
\* item is rendered and the repeater is subscribed to no array.
C12_FatalConfigError ==
    (phase # "created" /\ (~templateChild \/ dataContext \notin Arrays)) =>
        /\ bindError = "Error"
        /\ itemNodes = <<>>
        /\ ItemNodesInDom = <<>>
        /\ \A a \in Arrays : addSubs[a] = 0 /\ remSubs[a] = 0

\* C13: attachedCallback on a repeater with a template and an array as data
\* context does not fail, whatever callbacks its data-event-item-
\* attributes name and whether or not an outer component is set; it ends
\* attached, with a callback recorded exactly for the events whose
\* callback the outer component has.
C13_UnresolvedSkipped ==
    (phase # "created" /\ templateChild /\ (phase = "failed" => dataContext \in Arrays)) =>
        /\ phase = "attached"
        /\ \A k \in DeclaredEvents :
              LET recorded == \E j \in 1..Len(itemEventCallbacks) :
                                  /\ itemEventCallbacks[j].eventName = hostAttributes[k].name[2]
                                  /\ itemEventCallbacks[j].callback = hostAttributes[k].value
              IN  recorded <=> (outerComponent.present
                                   /\ hostAttributes[k].value \in outerComponent.methods)

\* C14: the event fired last on an item node, if the repeater declares it
\* with a method of the outer component, has invoked that method, once,
\* with the data context of the node's item.
C14_ItemEvent ==
    lastFired.node # Null =>
        \A k \in DeclaredEvents :
            ( /\ hostAttributes[k].name[2] = lastFired.event
              /\ outerComponent.present
              /\ hostAttributes[k].value \in outerComponent.methods )
            => invoked = <<[callback |-> hostAttributes[k].value,
                            dataContext |-> nodeCtx[lastFired.node]]>>

\* ================================================ failure and step claims
\* C15: after the data binder has failed for the item being added,
\* itemNodes and itemNodeBindings have equal length and every item node
\* group in the DOM has its entry in both lists.
C15_FailureIsolated ==
    (lastError = "BindingError" /\ Quiet) =>
        /\ Len(itemNodes) = Len(itemNodeBindings)
        /\ ItemNodesInDom = Flatten(itemNodes)
        /\ \A i \in 1..Len(itemNodes) :
              /\ i <= Len(itemNodeBindings)
              /\ \A k \in 1..Len(itemNodeBindings[i]) :
                    itemNodeBindings[i][k].node \in Range(itemNodes[i])

\* C16: code that itemAdded calls out to never sees itemNodes and
\* itemNodeBindings with different lengths.
C16_NoTornState ==
    pc # "idle" => Len(itemNodes) = Len(itemNodeBindings)

====
